---- MODULE Spec2Model ----
(***************************************************************************)
(* Model of the PDF processing gRPC service (pdf-grpc-server.py) and of    *)
(* the extraction / embedding pipeline it calls (extract_pdf.py).          *)
(*                                                                         *)
(* Every request slot is one call handled by a worker thread of the        *)
(* server: either ProcessPdf or HealthCheck.  ProcessPdf is a sequence of  *)
(* blocking steps (temp file, extract_pdf, embed_chunks, unlink); the      *)
(* steps of different calls interleave, and the store may go down or come  *)
(* back between any two steps.                                             *)
(***************************************************************************)
EXTENDS Integers, Sequences, FiniteSets, TLC

VARIABLES req, files, table, tx, storeUp, workload, server, schema, pool, gui

vars == <<req, files, table, tx, storeUp, workload, server, schema, pool, gui>>

\* The state of the start of the process, which no call changes.
startup == <<server, schema>>

\* The variables that no step of the server changes.
others == <<workload, pool, gui>>

(***************************************************************************)
(* Program constants.                                                      *)
(***************************************************************************)
batch_size == 100
page_size == 500

(***************************************************************************)
(* Bounds of the model.                                                    *)
(***************************************************************************)
NumReqs == 2
MaxRem == 1

Reqs == 1..NumReqs

\* Names tempfile may generate; one file per call at most.
Paths == 1..NumReqs

\* Numbers of chunks the extractor returns.  Short documents fit in one
\* batch; long ones fill a page of execute_batch (which is a whole number of
\* encoder batches) exactly, or exceed it by a last partial batch.
ShortLens == {0, MaxRem}
LongLens == {page_size, page_size + MaxRem}

\* The calls the clients make in one run: up to NumReqs concurrent calls
\* with short documents, or one call fewer with long documents.
Workloads == {[calls |-> NumReqs, lens |-> ShortLens],
              [calls |-> NumReqs - 1, lens |-> LongLens]}

Min(a, b) == IF a <= b THEN a ELSE b

Range(s) == {s[k] : k \in 1..Len(s)}

(***************************************************************************)
(* Chunks returned by the chunker.  A chunk has a text and a meta object;  *)
(* the meta object has public attributes, an Enum attribute and a private  *)
(* attribute.  Two consecutive chunks share a page.                        *)
(***************************************************************************)
ChunkMeta(k) ==
    [t |-> "obj",
     attrs |-> << [key |-> "page", private |-> FALSE,
                   val |-> [t |-> "prim", v |-> (k + 1) \div 2]],
                  [key |-> "label", private |-> FALSE,
                   val |-> [t |-> "enum", value |-> "text"]],
                  [key |-> "_cache", private |-> TRUE,
                   val |-> [t |-> "other", repr |-> "<cache>"]] >>]

ChunkSeq(n) == [k \in 1..n |-> [text |-> k, meta |-> ChunkMeta(k)]]

(***************************************************************************)
(* convert_to_dict: Enum -> its value; object -> the dict of its public    *)
(* attributes, converted; list -> the list of converted items; primitive   *)
(* -> itself; anything else -> str(obj).                                   *)
(***************************************************************************)
RECURSIVE convert_to_dict(_)
convert_to_dict(obj) ==
    CASE obj.t = "enum" -> obj.value
      [] obj.t = "obj" ->
            LET pub == SelectSeq(obj.attrs, LAMBDA a : ~a.private)
            IN  [j \in 1..Len(pub) |->
                    <<pub[j].key, convert_to_dict(pub[j].val)>>]
      [] obj.t = "list" ->
            [j \in 1..Len(obj.items) |-> convert_to_dict(obj.items[j])]
      [] obj.t = "prim" -> obj.v
      [] OTHER -> obj.repr

\* json.dumps: the serialised text of a value tree.
json_dumps(tree) == <<"json", tree>>

\* model.encode on one text: the vector of that text.
Embedding(text) == <<"vec", text>>

\* model.encode(batch_texts): one vector per text, in order.
encode(batch_texts) ==
    [j \in 1..Len(batch_texts) |-> Embedding(batch_texts[j])]

\* zip(a, b): pairs up to the shorter of the two.
zip(a, b) == [j \in 1..Min(Len(a), Len(b)) |-> <<a[j], b[j]>>]

\* uuid4(): a fresh identifier; the k-th one generated by call r.
uuid4(r, k) == <<r, k>>

\* A slice that loses the last text of a full batch.
batch_texts_short(texts, i) ==
    SubSeq(texts, i + 1, Min(i + batch_size - 1, Len(texts)))

\* texts[i:i+batch_size] (i is 0-based).
batch_texts(texts, i) == SubSeq(texts, i + 1, Min(i + batch_size, Len(texts)))

\* The metadata stored by the records of the batch that starts at i.
BatchMeta(chunks, i, j) == chunks[i + 1].meta

\* The tuples appended to data for the batch that starts at i.
BatchRecords(r, chunks, texts, i) ==
    LET bt == batch_texts(texts, i)
        pairs == zip(bt, encode(bt))
    IN  [j \in 1..Len(pairs) |->
            [id |-> uuid4(r, i + j),
             doc_fragment |-> pairs[j][1],
             metadata |-> json_dumps(convert_to_dict(BatchMeta(chunks, i, j))),
             embedding |-> pairs[j][2]]]

\* for i in range(0, len(texts), batch_size), stopped before the batch that
\* starts at `stop` (the batch on which model.encode raises); stop = len(texts)
\* when no batch faults.
RECURSIVE BuildData(_, _, _, _, _, _)
BuildData(r, chunks, texts, i, stop, data) ==
    IF i >= Len(texts) \/ i >= stop
    THEN data
    ELSE BuildData(r, chunks, texts, i + batch_size, stop,
                   data \o BatchRecords(r, chunks, texts, i))

Texts(chunks) == [k \in 1..Len(chunks) |-> chunks[k].text]

\* range(0, n, batch_size)
BatchStarts(n) == {i \in 0..(n - 1) : i % batch_size = 0}

(***************************************************************************)
(* Responses.  A message is the sequence of the pieces the f-string joins. *)
(***************************************************************************)
filename == "doc.pdf"

\* A PdfResponse / HealthCheckResponse not yet filled in (proto3 defaults).
NoResponse == [chunks_processed |-> 0, message |-> <<>>, success |-> FALSE]
NoStatus == <<>>

\* ProcessPdf, the return of the try block.
SuccessResponse(n) ==
    [chunks_processed |-> n,
     message |-> <<"Successfully processed ", filename, " and extracted ",
                   ToString(n), " chunks">>,
     success |-> TRUE]

\* ProcessPdf, the return of the except block; e is str(e).
FailureResponse(e) ==
    [chunks_processed |-> 0,
     message |-> <<"Failed to process PDF: ", e>>,
     success |-> FALSE]

\* str(e) of the exception raised at each place.
StoreErrors == {"could not connect to server",
                "server closed the connection unexpectedly",
                "insert failed",
                "connection already closed"}

ErrText(fault) ==
    CASE fault = "tmp_create" -> "cannot create temporary file"
      [] fault = "tmp_write" -> "cannot write temporary file"
      [] fault = "invalid" -> "input is not a valid document"
      [] fault = "extract" -> "conversion failed"
      [] fault = "model_load" -> "cannot load embedding model"
      [] fault = "connect" -> "could not connect to server"
      [] fault = "encode" -> "encoder failed"
      [] fault = "write" -> "insert failed"
      [] fault = "conn_lost" -> "server closed the connection unexpectedly"
      [] fault = "rollback" -> "connection already closed"
      [] fault = "unlink" -> "cannot remove temporary file"
      [] OTHER -> ""

\* A health check that answers without looking at the probe.
HealthStatusAssumed(up) == <<"healthy">>

\* HealthCheck: the status for a probe that found the store up or down.
HealthStatus(up) ==
    IF up THEN <<"healthy">>
          ELSE <<"unhealthy: ", ErrText("connect")>>

(***************************************************************************)
(* State.                                                                  *)
(*   req[r]   the call in slot r: its position pc, the locals of           *)
(*            ProcessPdf and embed_chunks, and its response                *)
(*   files    the temporary files that exist, each with its creator        *)
(*   table    the committed rows of the embeddings table                   *)
(*   tx[r]    the rows inserted in the open transaction of call r          *)
(*   storeUp  whether the store accepts connections                        *)
(*   workload the calls the clients make in this run (never changes)       *)
(*            (steps: the steps of ProcessPdf the call has started)        *)
(*   server   the start of the process: its phase, the environment it was  *)
(*            started with, and how often the table check has run          *)
(*   schema   whether the store has the vector extension and the           *)
(*            embeddings table                                             *)
(*   pool     the thread pool of the gRPC server: the calls waiting for a  *)
(*            worker, those a worker is running, those that returned       *)
(*   gui      the Tk client of ui.py                                       *)
(***************************************************************************)
NoPath == 0

\* No call has been received.
IdleReq ==
    [pc |-> "idle", kind |-> "none", path |-> NoPath,
     nchunks |-> 0, data |-> <<>>, sent |-> 0, conn |-> "none",
     fault |-> "none", raised |-> "none", unlinked |-> 0,
     resp |-> NoResponse, status |-> NoStatus, probed |-> FALSE,
     steps |-> <<>>]

\* extract_pdf.py, lines 39-40: the required variables that os.getenv finds
\* unset or empty.
required_env_vars == {"DB_NAME", "DB_USER", "DB_PASSWORD", "DB_HOST", "DB_PORT"}

EnvValues == {"unset", "empty", "set"}

\* A validation that only looks for unset variables.
missing_vars_unset(env) == {v \in required_env_vars : env[v] = "unset"}

missing_vars(env) == {v \in required_env_vars : env[v] # "set"}

\* The stores the process may find: the embeddings table has a vector
\* column, so it only exists where the extension does.
Schemas == {[vector |-> FALSE, table |-> FALSE],
            [vector |-> TRUE, table |-> FALSE],
            [vector |-> TRUE, table |-> TRUE]}

(***************************************************************************)
(* The Tk client of ui.py.  A PdfProcessorClient is named by the number of *)
(* the connect_to_server call that created it.                             *)
(*   client    self.client: NoClient (None) or a client                    *)
(*   attempts  the connect_to_server calls so far                          *)
(*   health[a] the check_health_thread that call a started: where it is,   *)
(*             and the client it found in self.client                      *)
(*   after     the update_connection_status calls queued with root.after   *)
(*   label     the text of status_label                                    *)
(*   healthy   the clients whose check_health has returned "healthy"       *)
(*   reported  the clients for which "healthy" was shown as Connected      *)
(*   pressed   what the last press of Process PDF did                      *)
(*   proc      the process_thread of the last press                        *)
(*   rpc       the last ProcessPdf RPC sent                                *)
(***************************************************************************)
\* The times the user presses Connect / Reconnect.
MaxReconnects == 1

Attempts == 1..(MaxReconnects + 1)

NoClient == 0

NoRpc == [client |-> NoClient, healthy |-> FALSE]

\* What check_health returns: the status of the server, or "Error: ..."
\* for an RpcError (lines 38-44).
Statuses == {HealthStatus(TRUE), HealthStatus(FALSE), <<"Error: ", "unavailable">>}

\* PdfProcessorApp.__init__, lines 96-102: self.client = None, the widgets,
\* then the first connect_to_server, whose thread has just been started.
GuiInit ==
    [client |-> 1, attempts |-> 1,
     health |-> [a \in Attempts |->
                   [pc |-> IF a = 1 THEN "started" ELSE "none",
                    target |-> NoClient]],
     after |-> <<>>, label |-> "Status: Connecting...",
     healthy |-> {}, reported |-> {},
     pressed |-> "none", proc |-> "none", rpc |-> NoRpc]


\* serve, line 197: ThreadPoolExecutor(max_workers=10).
max_workers == 10

\* The calls the clients make while the pool is looked at: enough to keep
\* every worker busy and MaxWaiting more.
MaxWaiting == 1

Calls == 1..(max_workers + MaxWaiting)

\* The pool of a server that has received no call.
PoolInit == [arrived |-> 0, queue |-> <<>>, running |-> {}, done |-> {}]

\* Init is the start of the process: python runs pdf-grpc-server.py with
\* some environment, against some store.
Init ==
    /\ req = [r \in Reqs |-> IdleReq]
    /\ files = {}
    /\ table = {}
    /\ tx = [r \in Reqs |-> <<>>]
    /\ storeUp = TRUE
    /\ workload \in Workloads
    /\ server \in [phase : {"importing"},
                    env : [required_env_vars -> EnvValues],
                    checks : {0}]
    /\ schema \in Schemas
    /\ pool = PoolInit
    /\ gui = GuiInit

(***************************************************************************)
(* pdf-grpc-server.py, line 14: importing extract_pdf runs its validation  *)
(* of the environment (extract_pdf.py, lines 39-42), which raises          *)
(* EnvironmentError: the process ends before serve() is reached.           *)
(***************************************************************************)
ImportExtractPdf ==
    /\ server.phase = "importing"
    /\ server' = [server EXCEPT !.phase =
                     IF missing_vars(server.env) # {} THEN "crashed"
                                                      ELSE "loaded"]
    /\ UNCHANGED <<req, files, table, tx, storeUp, schema, others>>

\* A verification that looks for the table and does not create it.
SchemaAfterVerifyFound(sch) == sch

\* verify_db_connection, lines 155-177: the embeddings table is created
\* when the check does not find it.
SchemaAfterVerify(sch) == [sch EXCEPT !.table = TRUE]

\* verify_db_connection returns True: it could connect and register_vector
\* found the vector type (lines 151-152).
VerifyOk == storeUp /\ schema.vector

(***************************************************************************)
(* serve, lines 186-209: verify_db_connection, then start the server; on   *)
(* a failed verification serve returns and the process ends.               *)
(***************************************************************************)
Serve ==
    /\ server.phase = "loaded"
    /\ IF VerifyOk
       THEN /\ schema' = SchemaAfterVerify(schema)
            /\ server' = [server EXCEPT !.phase = "serving",
                                        !.checks = @ + 1]
       ELSE /\ schema' = schema
            /\ server' = [server EXCEPT !.phase = "exited"]
    /\ UNCHANGED <<req, files, table, tx, storeUp, others>>

chunks(r) == ChunkSeq(req[r].nchunks)

\* Calls are numbered in the order in which the server starts them.
NextToArrive(r) ==
    /\ server.phase = "serving"
    /\ req[r].pc = "idle"
    /\ r <= workload.calls
    /\ \A q \in Reqs : q < r => req[q].pc # "idle"

\* The except block of ProcessPdf: the call returns the failure response.
Failed(fault, rec) ==
    [rec EXCEPT !.pc = "done", !.raised = fault,
                !.fault = IF rec.fault = "none" THEN fault ELSE rec.fault,
                !.data = <<>>,
                !.steps = Append(@, "respond"),
                !.resp = FailureResponse(ErrText(fault))]

\* A file is <<name, r>>: the file of that name that call r created.
FileNames == {f[1] : f \in files}

\* A temporary file of a fixed name, whatever files exist.
NewTempNameFixed == CHOOSE p \in Paths : \A q \in Paths : p <= q

\* tempfile.NamedTemporaryFile: a name no existing file has (the first one).
NewTempName ==
    CHOOSE p \in Paths \ FileNames : \A q \in Paths \ FileNames : p <= q

\* os.unlink(path): the file of that name is gone.
Unlink(fs, path) == {f \in fs : f[1] # path}

(***************************************************************************)
(* ProcessPdf, lines 86-88: create the temporary file and write the        *)
(* payload.  Creation may fail (no file), the write may fail (the file     *)
(* stays: delete=False).                                                   *)
(***************************************************************************)
SaveTempFile(r) ==
    /\ NextToArrive(r)
    /\ \E outcome \in {"ok", "tmp_create", "tmp_write"} :
         LET arrived == [req[r] EXCEPT !.kind = "pdf",
                                       !.steps = Append(@, "write")]
             p == NewTempName
         IN  CASE outcome = "ok" ->
                    /\ req' = [req EXCEPT ![r] =
                                 [arrived EXCEPT !.pc = "saved", !.path = p]]
                    /\ files' = files \cup {<<p, r>>}
               [] outcome = "tmp_create" ->
                    /\ req' = [req EXCEPT ![r] = Failed("tmp_create", arrived)]
                    /\ files' = files
               [] OTHER ->
                    /\ req' = [req EXCEPT ![r] =
                                 Failed("tmp_write", [arrived EXCEPT !.path = p])]
                    /\ files' = files \cup {<<p, r>>}
    /\ UNCHANGED <<table, tx, storeUp, startup, others>>

(***************************************************************************)
(* ProcessPdf, lines 94-95: extract_pdf.  It raises on a payload that is   *)
(* not a valid document ("invalid"), and on a fault of the converter,      *)
(* tokenizer or chunker on a valid one ("extract").                        *)
(***************************************************************************)
ExtractPdf(r) ==
    /\ req[r].pc = "saved"
    /\ LET started == [req[r] EXCEPT !.steps = Append(@, "extract")]
       IN  \/ \E n \in workload.lens :
                  req' = [req EXCEPT ![r] =
                            [started EXCEPT !.pc = "extracted", !.nchunks = n]]
           \/ req' = [req EXCEPT ![r] = Failed("extract", started)]
           \/ req' = [req EXCEPT ![r] = Failed("invalid", started)]
    /\ UNCHANGED <<files, table, tx, storeUp, startup, others>>

(***************************************************************************)
(* The store.  A transaction collects the inserted rows; they become       *)
(* visible in the table at commit and are discarded at rollback or when    *)
(* the connection is lost.                                                 *)
(***************************************************************************)
\* A connection in autocommit mode: every page is visible at once.
TableAfterPageAutocommit(tbl, rows) == tbl \cup rows

\* The table after one page of rows was sent inside the open transaction
\* (the connection is not in autocommit mode).
TableAfterPage(tbl, rows) == tbl

\* A connection that stays open after the function that opened it returned.
ConnKept == "open"

\* The connection is a local variable of embed_chunks and of HealthCheck;
\* neither closes it (the with block of psycopg2 ends the transaction
\* only).  When the function returns, or when the exception that left it
\* has been handled, the last reference is gone and the connection object
\* is deallocated, which closes it.
ConnAfterReturn == "none"

\* conn.commit()
TableAfterCommit(tbl, pending) == tbl \cup Range(pending)

\* execute_batch: the rows of the page that follows the `sent` rows sent.
NextPage(data, sent) == SubSeq(data, sent + 1, Min(sent + page_size, Len(data)))

(***************************************************************************)
(* embed_chunks, lines 108-117: load the model (outside the try), then     *)
(* connect.  A failed connect is caught by embed_chunks itself, with no    *)
(* conn to roll back: embed_chunks returns normally.                       *)
(***************************************************************************)
Connect(r) ==
    /\ req[r].pc = "extracted"
    /\ LET started == [req[r] EXCEPT !.steps = Append(@, "embed")]
       IN  \/ req' = [req EXCEPT ![r] = Failed("model_load", started)]
           \/ /\ ~storeUp
              /\ req' = [req EXCEPT ![r] =
                           [started EXCEPT !.pc = "embedded",
                                           !.fault = "connect"]]
           \/ /\ storeUp
              /\ req' = [req EXCEPT ![r] =
                           [started EXCEPT !.pc = "encoding",
                                           !.conn = "open"]]
    /\ UNCHANGED <<files, table, tx, storeUp, startup, others>>

(***************************************************************************)
(* embed_chunks, lines 118-128: the loop over the batches.  model.encode   *)
(* may raise on any batch; the records of the earlier batches are then     *)
(* already in data.  When the loop ends, execute_batch is entered.          *)
(***************************************************************************)
EncodeBatches(r) ==
    /\ req[r].pc = "encoding"
    /\ LET chs == chunks(r)
           texts == Texts(chs)
       IN  \/ req' = [req EXCEPT
                        ![r].pc = "inserting",
                        ![r].steps = Append(@, "persist"),
                        ![r].data = BuildData(r, chs, texts, 0, Len(texts), <<>>)]
           \/ \E stop \in BatchStarts(Len(texts)) :
                req' = [req EXCEPT
                          ![r].pc = "handler", ![r].fault = "encode",
                          ![r].data = BuildData(r, chs, texts, 0, stop, <<>>)]
    /\ UNCHANGED <<files, table, tx, storeUp, startup, others>>

(***************************************************************************)
(* embed_chunks, lines 130-137: execute_batch sends data in pages of       *)
(* page_size rows.  A page fails when the connection is lost, or with a    *)
(* statement error on a live connection.                                   *)
(***************************************************************************)
ExecutePage(r) ==
    /\ req[r].pc = "inserting"
    /\ req[r].sent < Len(req[r].data)
    /\ \/ /\ req[r].conn = "open"
          /\ LET rows == NextPage(req[r].data, req[r].sent)
             IN  /\ tx' = [tx EXCEPT ![r] = @ \o rows]
                 /\ table' = TableAfterPage(table, Range(rows))
                 /\ req' = [req EXCEPT ![r].sent = @ + Len(rows)]
       \/ /\ req[r].conn = "open"
          /\ req' = [req EXCEPT ![r].pc = "handler", ![r].fault = "write"]
          /\ UNCHANGED <<table, tx>>
       \/ /\ req[r].conn = "broken"
          /\ req' = [req EXCEPT ![r].pc = "handler", ![r].fault = "conn_lost"]
          /\ UNCHANGED <<table, tx>>
    /\ UNCHANGED <<files, storeUp, startup, others>>

(***************************************************************************)
(* embed_chunks, line 138: conn.commit() once every page was sent.         *)
(***************************************************************************)
Commit(r) ==
    /\ req[r].pc = "inserting"
    /\ req[r].sent = Len(req[r].data)
    /\ \/ /\ req[r].conn = "open"
          /\ table' = TableAfterCommit(table, tx[r])
          /\ tx' = [tx EXCEPT ![r] = <<>>]
          /\ req' = [req EXCEPT ![r].pc = "embedded", ![r].data = <<>>,
                                ![r].conn = ConnAfterReturn]
       \/ /\ req[r].conn = "broken"
          /\ req' = [req EXCEPT ![r].pc = "handler", ![r].fault = "conn_lost"]
          /\ UNCHANGED <<table, tx>>
    /\ UNCHANGED <<files, storeUp, startup, others>>

\* An except block that runs the loop over the batches again.
AfterHandlerRetry == "encoding"

\* embed_chunks, line 142: after the rollback the function returns, to line
\* 99 of ProcessPdf.
AfterHandler == "embedded"

(***************************************************************************)
(* embed_chunks, lines 139-142: the except block.  It rolls back and       *)
(* returns normally; on a lost connection the rollback itself raises, and  *)
(* that exception leaves embed_chunks.                                     *)
(***************************************************************************)
Handler(r) ==
    /\ req[r].pc = "handler"
    /\ \/ /\ req[r].conn = "open"
          /\ req' = [req EXCEPT ![r].pc = AfterHandler, ![r].data = <<>>,
                                ![r].conn = ConnAfterReturn]
       \/ /\ req[r].conn = "broken"
          /\ req' = [req EXCEPT ![r] =
                       Failed("rollback",
                              [req[r] EXCEPT !.conn = ConnAfterReturn])]
    /\ tx' = [tx EXCEPT ![r] = <<>>]
    /\ UNCHANGED <<files, table, storeUp, startup, others>>

(***************************************************************************)
(* ProcessPdf, lines 99-109: embed_chunks returned; remove the temporary   *)
(* file and answer.  os.unlink is inside the try block.                    *)
(***************************************************************************)
Finish(r) ==
    /\ req[r].pc = "embedded"
    /\ \/ /\ files' = Unlink(files, req[r].path)
          /\ req' = [req EXCEPT ![r].pc = "done", ![r].unlinked = @ + 1,
                                ![r].steps = Append(@, "respond"),
                                ![r].resp = SuccessResponse(Len(chunks(r)))]
       \/ /\ files' = files
          /\ req' = [req EXCEPT ![r] = Failed("unlink", req[r])]
    /\ UNCHANGED <<table, tx, storeUp, startup, others>>

(***************************************************************************)
(* HealthCheck, lines 131-133: the call arrives and connects; a failed     *)
(* connect becomes the "unhealthy: ..." status at once (lines 142-145).    *)
(***************************************************************************)
HealthCheck(r) ==
    /\ NextToArrive(r)
    /\ \/ /\ storeUp
          /\ req' = [req EXCEPT ![r].pc = "probing", ![r].kind = "health",
                                ![r].conn = "open"]
       \/ /\ ~storeUp
          /\ req' = [req EXCEPT ![r].pc = "done", ![r].kind = "health",
                                ![r].probed = FALSE,
                                ![r].status = HealthStatus(FALSE)]
    /\ UNCHANGED <<files, table, tx, storeUp, startup, others>>

\* A probe that leaves a row behind.
TableAfterProbeRow(tbl, r) ==
    tbl \cup {[id |-> uuid4(r, 0), doc_fragment |-> "", metadata |-> <<>>,
               embedding |-> <<>>]}

\* HealthCheck, line 136: the table after SELECT 1.
TableAfterProbe(tbl, r) == tbl

(***************************************************************************)
(* HealthCheck, lines 134-145: register_vector (the server only starts     *)
(* when verify_db_connection found the vector type), SELECT 1, answer.     *)
(* On a connection lost since the connect the query raises, and the        *)
(* status is "unhealthy: ...".  The connection is dropped at the return.   *)
(***************************************************************************)
HealthSelect(r) ==
    /\ req[r].pc = "probing"
    /\ LET ok == req[r].conn = "open"
       IN  req' = [req EXCEPT ![r].pc = "done", ![r].conn = ConnAfterReturn,
                              ![r].probed = ok,
                              ![r].status = HealthStatus(ok)]
    /\ table' = TableAfterProbe(table, r)
    /\ UNCHANGED <<files, tx, storeUp, startup, others>>

(***************************************************************************)
(* The store goes down: every open connection is lost and the rows of the  *)
(* open transactions are discarded.  Then it comes back.                   *)
(***************************************************************************)
StoreDown ==
    /\ storeUp
    /\ storeUp' = FALSE
    /\ req' = [r \in Reqs |->
                 IF req[r].conn = "open" THEN [req[r] EXCEPT !.conn = "broken"]
                                         ELSE req[r]]
    /\ tx' = [r \in Reqs |-> <<>>]
    /\ UNCHANGED <<files, table, startup, others>>

StoreBack ==
    /\ ~storeUp
    /\ storeUp' = TRUE
    /\ UNCHANGED <<req, files, table, tx, startup, others>>

Next ==
    \/ ImportExtractPdf
    \/ Serve
    \/ \E r \in Reqs : SaveTempFile(r)
    \/ \E r \in Reqs : ExtractPdf(r)
    \/ \E r \in Reqs : Connect(r)
    \/ \E r \in Reqs : EncodeBatches(r)
    \/ \E r \in Reqs : ExecutePage(r)
    \/ \E r \in Reqs : Commit(r)
    \/ \E r \in Reqs : Handler(r)
    \/ \E r \in Reqs : Finish(r)
    \/ \E r \in Reqs : HealthCheck(r)
    \/ \E r \in Reqs : HealthSelect(r)
    \/ StoreDown
    \/ StoreBack

Spec == Init /\ [][Next]_vars

(***************************************************************************)
(* Properties.                                                             *)
(***************************************************************************)
Done(r) == req[r].pc = "done" /\ req[r].kind = "pdf"

\* The committed rows of the embeddings table that call r inserted.
VisibleRows(r) == {row \in table : row.id[1] = r}

\* C1: once a ProcessPdf call has returned, the temporary file it created
\* has been removed, exactly once, whatever the outcome of the call.
C1_TempFileReleased ==
    \A r \in Reqs :
        (Done(r) /\ req[r].path # NoPath) =>
            /\ <<req[r].path, r>> \notin files
            /\ req[r].unlinked = 1

\* C2: a call whose store connection or store write failed answers
\* success=false with a message that contains the store's error text.
C2_StoreFailureReported ==
    \A r \in Reqs :
        (Done(r) /\ req[r].fault \in {"connect", "write", "conn_lost"}) =>
            /\ ~req[r].resp.success
            /\ Range(req[r].resp.message) \cap StoreErrors # {}

\* C3: the committed rows of a call are none or one per chunk of its
\* document, in every state; a call whose insert was interrupted after some
\* pages has no committed row.
C3_AllOrNothing ==
    \A r \in Reqs :
        LET mine == VisibleRows(r)
            chs == chunks(r)
        IN  /\ \/ mine = {}
               \/ /\ Cardinality(mine) = Len(chs)
                  /\ {row.doc_fragment : row \in mine} =
                        {chs[k].text : k \in 1..Len(chs)}
            /\ (req[r].fault \in {"write", "conn_lost"} /\ req[r].sent > 0)
                  => mine = {}

\* A call interrupted after its first page of rows, before the last page,
\* has returned, and none of its rows is visible.
C3_Witness ==
    \E r \in Reqs :
        /\ Done(r)
        /\ req[r].fault \in {"write", "conn_lost"}
        /\ req[r].sent >= page_size
        /\ req[r].sent < req[r].nchunks
        /\ VisibleRows(r) = {}

\* C4: when the batch loop has run over all n chunks, data holds exactly n
\* records and the k-th record carries the text of the k-th chunk.
C4_RecordsMatchChunks ==
    \A r \in Reqs :
        req[r].pc = "inserting" =>
            LET chs == chunks(r)
            IN  /\ Len(req[r].data) = Len(chs)
                /\ \A k \in 1..Len(chs) :
                      req[r].data[k].doc_fragment = chs[k].text

\* The records of a document of several batches, the last one partial, have
\* been built.
C4_Witness ==
    \E r \in Reqs :
        /\ req[r].pc = "inserting"
        /\ req[r].nchunks > batch_size
        /\ req[r].nchunks % batch_size # 0
        /\ Len(req[r].data) = req[r].nchunks

\* C5: the k-th record stores the serialised metadata of the k-th chunk.
C5_RecordMetadata ==
    \A r \in Reqs :
        req[r].pc = "inserting" =>
            LET chs == chunks(r)
            IN  \A k \in 1..Len(req[r].data) :
                   req[r].data[k].metadata =
                      json_dumps(convert_to_dict(chs[k].meta))

\* C6: a call in which any step raised answers success=false with
\* chunks_processed = 0 and a non-empty message.
C6_ErrorsBecomeFailures ==
    \A r \in Reqs :
        (Done(r) /\ req[r].fault # "none") =>
            /\ ~req[r].resp.success
            /\ req[r].resp.chunks_processed = 0
            /\ req[r].resp.message # <<>>

\* C7: a call in which the encoder raised on a batch answers success=false
\* and none of its rows is committed.
C7_EncoderFaultFailsCall ==
    \A r \in Reqs :
        (Done(r) /\ req[r].fault = "encode") =>
            /\ ~req[r].resp.success
            /\ VisibleRows(r) = {}

\* C8: a call that answers success=true reports as chunks_processed the
\* number of its rows that are committed.
C8_CountIsCommittedRows ==
    \A r \in Reqs :
        (Done(r) /\ req[r].resp.success) =>
            req[r].resp.chunks_processed = Cardinality(VisibleRows(r))

\* C9: a call in which only the removal of the temporary file failed still
\* answers success=true with the number of chunks processed.
C9_CleanupFailureNotSurfaced ==
    \A r \in Reqs :
        (Done(r) /\ req[r].fault = "unlink") =>
            /\ req[r].resp.success
            /\ req[r].resp.chunks_processed = req[r].nchunks

HealthDone(r) == req[r].pc = "done" /\ req[r].kind = "health"

\* C10: every HealthCheck call answers, with "healthy" exactly when the
\* store was up at the call and with a status beginning "unhealthy:" when
\* it was down; two calls between which the availability of the store
\* differs answer with different statuses.
C10_HealthProbesLive ==
    /\ \A r \in Reqs :
          HealthDone(r) =>
              /\ req[r].status # NoStatus
              /\ req[r].probed <=> (req[r].status = <<"healthy">>)
              /\ ~req[r].probed => Head(req[r].status) = "unhealthy: "
    /\ \A r1, r2 \in Reqs :
          (HealthDone(r1) /\ HealthDone(r2) /\ req[r1].probed # req[r2].probed)
              => req[r1].status # req[r2].status

\* Two consecutive HealthCheck calls, the store up at the first and down at
\* the second, have both answered.
C10_Witness ==
    \E r \in Reqs :
        /\ r + 1 \in Reqs
        /\ HealthDone(r) /\ HealthDone(r + 1)
        /\ req[r].probed /\ ~req[r + 1].probed
        /\ req[r].status = <<"healthy">>
        /\ Head(req[r + 1].status) = "unhealthy: "

\* A ProcessPdf call that was received and has not answered yet.
InFlight(r) == req[r].kind = "pdf" /\ req[r].pc \notin {"idle", "done"}

\* C11: the temporary files of the calls in flight have pairwise distinct
\* paths, and the file of a call in flight is there and is its own: no
\* other call has removed it or created a file over it.
C11_TempPathsDistinct ==
    /\ \A r1, r2 \in Reqs :
          (r1 # r2 /\ InFlight(r1) /\ InFlight(r2))
              => req[r1].path # req[r2].path
    /\ \A r \in Reqs :
          InFlight(r) =>
              /\ req[r].path # NoPath
              /\ <<req[r].path, r>> \in files
              /\ \A f \in files : f[1] = req[r].path => f[2] = r

\* Two calls are in flight, each with its temporary file.
C11_Witness ==
    \E r1, r2 \in Reqs :
        /\ r1 # r2
        /\ InFlight(r1) /\ InFlight(r2)
        /\ <<req[r1].path, r1>> \in files
        /\ <<req[r2].path, r2>> \in files

\* The Table and Picture elements of the converted document of a call whose
\* chunker returned n chunks: one of each in every non-empty document.
DocTables(n) == IF n > 0 THEN 1 ELSE 0
DocPictures(n) == IF n > 0 THEN 1 ELSE 0

\* The files call r created besides its temporary input file.
OutputFiles(r) == {f \in files : f[2] = r /\ f[1] # req[r].path}

\* C12: while a call processes an extracted document with one table and one
\* picture, its output directory holds one image file for each (table-1.png
\* and picture-1.png); once the call has returned none of them is left.
C12_OutputArtifacts ==
    \A r \in Reqs :
        /\ (/\ req[r].pc \in {"extracted", "encoding", "inserting",
                              "handler", "embedded"}
            /\ DocTables(req[r].nchunks) = 1
            /\ DocPictures(req[r].nchunks) = 1)
              => Cardinality(OutputFiles(r)) = 2
        /\ Done(r) => OutputFiles(r) = {}

\* C13: when any of DB_NAME, DB_USER, DB_PASSWORD, DB_HOST, DB_PORT is unset
\* or empty, the process ends while it starts: the table check never runs,
\* the server never listens, and no call is ever received or answered.
C13_MissingConfigIsStartupFatal ==
    (\E v \in required_env_vars : server.env[v] \in {"unset", "empty"})
        => /\ server.phase \in {"importing", "crashed"}
           /\ server.checks = 0
           /\ \A r \in Reqs : req[r] = IdleReq

C13_Witness ==
    /\ server.phase = "crashed"
    /\ \E v \in required_env_vars : server.env[v] = "empty"
    /\ \A v \in required_env_vars : server.env[v] # "unset"

\* C16: the check for the embeddings table, with its creation, runs once,
\* while the process starts and before any call is received, and never again
\* while calls are handled; the server only serves after the check succeeded,
\* so the table exists whenever a call reaches the INSERT.
C16_TableCheckedAtStartup ==
    /\ server.checks <= 1
    /\ server.phase = "serving" => (server.checks = 1 /\ schema.table)
    /\ server.phase # "serving" => server.checks = 0
    /\ \A r \in Reqs :
          /\ req[r].pc # "idle" => (server.phase = "serving" /\ server.checks = 1)
          /\ req[r].pc = "inserting" => schema.table

C16_Witness ==
    \E r \in Reqs :
        /\ req[r].pc = "inserting"
        /\ req[r].sent > 0
        /\ server.checks = 1
        /\ schema.table

\* The steps of ProcessPdf that do the work, in the order of the code.
WorkSteps == <<"write", "extract", "embed", "persist">>

IsPrefix(s, t) == Len(s) <= Len(t) /\ s = SubSeq(t, 1, Len(s))

\* The steps a call has started, without the answer.
WorkStarted(r) ==
    LET s == req[r].steps
    IN  IF s # <<>> /\ s[Len(s)] = "respond" THEN SubSeq(s, 1, Len(s) - 1)
                                              ELSE s

\* C14: the steps a ProcessPdf call has started are, in this order and each
\* at most once, write-input-file, extract+chunk, embed, persist, and last
\* the answer; a call that answers without a fault has started all of them;
\* and once a step of the call has failed, the call starts no further step
\* of the work: it only answers.
C14_StepsInOrder ==
    /\ [](\A r \in Reqs :
            /\ IsPrefix(WorkStarted(r), WorkSteps)
            /\ (req[r].steps # WorkStarted(r)) <=> Done(r)
            /\ (Done(r) /\ req[r].fault = "none")
                  => req[r].steps = WorkSteps \o <<"respond">>)
    /\ [][\A r \in Reqs :
            req[r].fault # "none"
                => \/ req'[r].steps = req[r].steps
                   \/ req'[r].steps = Append(req[r].steps, "respond")]_vars

C14_Witness ==
    \E r1, r2 \in Reqs :
        /\ Done(r1) /\ req[r1].fault = "encode"
        /\ req[r1].steps = <<"write", "extract", "embed", "respond">>
        /\ Done(r2) /\ req[r2].fault = "none"
        /\ req[r2].steps = WorkSteps \o <<"respond">>

\* A call, of either kind, that was received and has not answered yet.
Running(r) == req[r].pc \notin {"idle", "done"}

\* The calls that hold a connection object, live or lost.
OpenConns == {r \in Reqs : req[r].conn # "none"}

HealthStep(r) ==
    /\ req'[r] # req[r]
    /\ req'[r].kind = "health"
    /\ storeUp' = storeUp

\* C18: a step of a HealthCheck call, whether the probe succeeds or fails
\* and whatever the ProcessPdf calls in flight are doing, changes no row of
\* the embeddings table, committed or pending, no temporary file, and
\* nothing of any other call; no row and no file is ever that of a
\* HealthCheck call.
C18_HealthCheckReadOnly ==
    /\ [][\A r \in Reqs :
            HealthStep(r) =>
                /\ table' = table
                /\ tx' = tx
                /\ files' = files
                /\ schema' = schema
                /\ \A q \in Reqs \ {r} : req'[q] = req[q]]_vars
    /\ [](\A r \in Reqs :
            req[r].kind = "health" =>
                /\ VisibleRows(r) = {}
                /\ tx[r] = <<>>
                /\ \A f \in files : f[2] # r)

\* A probe has answered next to a ProcessPdf call in flight whose rows are
\* pending and whose temporary file exists.
C18_Witness ==
    \E r1, r2 \in Reqs :
        /\ InFlight(r1) /\ tx[r1] # <<>>
        /\ <<req[r1].path, r1>> \in files
        /\ HealthDone(r2)
        /\ req[r2].status = <<"healthy">>

(***************************************************************************)
(* The thread pool.  grpc.server hands every call it receives to the       *)
(* ThreadPoolExecutor it was given (serve, lines 196-199): submit() puts   *)
(* the call on the work queue of the executor, which has no bound, and a   *)
(* worker thread takes the oldest one when it is free; there are at most   *)
(* max_workers threads.  What the worker then does with the call is the    *)
(* part of the model above; here a call only starts and returns.           *)
(***************************************************************************)
\* The server variables while the pool is looked at: started and serving.
Serving ==
    /\ req = [r \in Reqs |-> IdleReq]
    /\ files = {}
    /\ table = {}
    /\ tx = [r \in Reqs |-> <<>>]
    /\ storeUp = TRUE
    /\ workload = [calls |-> NumReqs, lens |-> ShortLens]
    /\ server = [phase |-> "serving",
                 env |-> [v \in required_env_vars |-> "set"],
                 checks |-> 1]
    /\ schema = [vector |-> TRUE, table |-> TRUE]

InitPool == Serving /\ pool = PoolInit /\ gui = GuiInit

\* An executor that starts a thread for every call.
HasFreeWorkerAlways(running) == TRUE

\* ThreadPoolExecutor: a worker is idle, or fewer than max_workers threads
\* exist.
HasFreeWorker(running) == Cardinality(running) < max_workers

\* A call arrives: the server submits it to the executor.
Submit ==
    /\ pool.arrived < max_workers + MaxWaiting
    /\ pool' = [pool EXCEPT !.arrived = @ + 1,
                            !.queue = Append(@, pool.arrived + 1)]
    /\ UNCHANGED <<req, files, table, tx, storeUp, workload, startup, gui>>

\* A free worker takes the oldest waiting call and runs its handler.
StartWorker ==
    /\ pool.queue # <<>>
    /\ HasFreeWorker(pool.running)
    /\ pool' = [pool EXCEPT !.queue = Tail(@),
                            !.running = @ \cup {Head(pool.queue)}]
    /\ UNCHANGED <<req, files, table, tx, storeUp, workload, startup, gui>>

\* The handler of call c returns: its worker is free again.
FinishWorker(c) ==
    /\ c \in pool.running
    /\ pool' = [pool EXCEPT !.running = @ \ {c}, !.done = @ \cup {c}]
    /\ UNCHANGED <<req, files, table, tx, storeUp, workload, startup, gui>>

NextPool ==
    \/ Submit
    \/ StartWorker
    \/ \E c \in Calls : FinishWorker(c)

\* A free worker does take a waiting call, and running handlers return.
SpecPool ==
    /\ InitPool
    /\ [][NextPool]_vars
    /\ WF_vars(StartWorker)
    /\ WF_vars(\E c \in Calls : FinishWorker(c))

Waiting(c) == \E i \in 1..Len(pool.queue) : pool.queue[i] = c

Started(c) == c \in pool.running \cup pool.done

\* C15: never more than 10 calls are being run; a call that arrives while
\* 10 are being run waits, and is run only when fewer than 10 are; and,
\* running handlers returning, every call the server received is
\* eventually started.
C15_BoundedPool ==
    /\ [](Cardinality(pool.running) <= max_workers)
    /\ [](\A c \in Calls : ~(Waiting(c) /\ Started(c)))
    /\ [][\A c \in Calls :
            (Waiting(c) /\ Cardinality(pool.running) = max_workers)
                => ~Started(c)']_vars
    /\ \A c \in Calls : Waiting(c) ~> Started(c)

C15_Witness ==
    /\ Cardinality(pool.running) = max_workers
    /\ pool.queue # <<>>

(***************************************************************************)
(* The steps of the Tk client.                                             *)
(***************************************************************************)
InitGui == Serving /\ pool = PoolInit /\ gui = GuiInit

\* update_connection_status(status), lines 214-221, for the oldest queued
\* call: any status but "healthy" sets self.client to None.
ApplyCallback(g) ==
    LET cb == Head(g.after)
    IN  IF cb.status = <<"healthy">>
        THEN [g EXCEPT !.after = Tail(@), !.label = "Status: Connected",
                       !.reported = @ \cup {cb.target}]
        ELSE [g EXCEPT !.after = Tail(@), !.label = "Status: Error",
                       !.client = NoClient]

\* root.update(): the queued calls run, oldest first.
RECURSIVE Flush(_)
Flush(g) == IF g.after = <<>> THEN g ELSE Flush(ApplyCallback(g))

\* connect_to_server, lines 190-208: label, root.update(), a new client in
\* self.client, and the thread that checks its health.
ConnectToServer ==
    /\ gui.attempts < MaxReconnects + 1
    /\ LET a == gui.attempts + 1
           g == Flush([gui EXCEPT !.label = "Status: Connecting..."])
       IN  gui' = [g EXCEPT !.client = a, !.attempts = a,
                            !.health[a].pc = "started"]
    /\ UNCHANGED <<req, files, table, tx, storeUp, workload, startup, pool>>

\* check_health_thread, line 202: the thread evaluates self.client, which
\* is whatever the attribute holds by then; on None the thread dies of an
\* AttributeError.
HealthRead(a) ==
    /\ gui.health[a].pc = "started"
    /\ gui' = IF gui.client = NoClient
              THEN [gui EXCEPT !.health[a].pc = "died"]
              ELSE [gui EXCEPT !.health[a].pc = "calling",
                               !.health[a].target = gui.client]
    /\ UNCHANGED <<req, files, table, tx, storeUp, workload, startup, pool>>

\* check_health_thread, lines 202-205: check_health returns and the result
\* is queued for the main thread.
HealthReturn(a) ==
    /\ gui.health[a].pc = "calling"
    /\ \E status \in Statuses :
         gui' = [gui EXCEPT
                   !.health[a].pc = "posted",
                   !.healthy = IF status = <<"healthy">>
                               THEN @ \cup {gui.health[a].target} ELSE @,
                   !.after = Append(@, [attempt |-> a,
                                        target |-> gui.health[a].target,
                                        status |-> status])]
    /\ UNCHANGED <<req, files, table, tx, storeUp, workload, startup, pool>>

\* The main loop runs the oldest queued update_connection_status.
UpdateConnectionStatus ==
    /\ gui.after # <<>>
    /\ gui' = ApplyCallback(gui)
    /\ UNCHANGED <<req, files, table, tx, storeUp, workload, startup, pool>>

\* process_pdf, lines 231-274: Process PDF is pressed.  Without a client:
\* "Not connected to server"; without a file: another message; else
\* root.update() and the thread that will send the RPC.
ProcessPdfPressed ==
    /\ gui.proc # "pending"
    /\ IF gui.client = NoClient
       THEN gui' = [gui EXCEPT !.pressed = "Not connected to server"]
       ELSE \/ gui' = [gui EXCEPT !.pressed = "Please select a PDF file"]
            \/ gui' = [Flush(gui) EXCEPT
                         !.pressed = IF gui.client \in gui.healthy
                                     THEN "Processing" ELSE "Processing unchecked",
                         !.proc = "pending"]
    /\ UNCHANGED <<req, files, table, tx, storeUp, workload, startup, pool>>

\* process_thread, lines 256-271: self.client.process_pdf sends the RPC
\* through whatever self.client holds by then; on None the AttributeError
\* is caught and shown.
ProcessThread ==
    /\ gui.proc = "pending"
    /\ gui' = IF gui.client = NoClient
              THEN [gui EXCEPT !.proc = "error"]
              ELSE [gui EXCEPT !.proc = "sent",
                               !.rpc = [client |-> gui.client,
                                        healthy |-> gui.client \in gui.healthy]]
    /\ UNCHANGED <<req, files, table, tx, storeUp, workload, startup, pool>>

NextGui ==
    \/ ConnectToServer
    \/ \E a \in Attempts : HealthRead(a)
    \/ \E a \in Attempts : HealthReturn(a)
    \/ UpdateConnectionStatus
    \/ ProcessPdfPressed
    \/ ProcessThread

SpecGui == InitGui /\ [][NextGui]_vars

\* C19: the client of a newer attempt, once it was shown as Connected, is
\* only ever dropped (self.client set to None) by a result of a health
\* check made on this very client, never by a late result of the check on
\* the client of an attempt it superseded.
C19_LateResultKeepsNewClient ==
    [][(/\ gui.client # NoClient
        /\ gui.client \in gui.reported
        /\ gui'.client = NoClient)
          => /\ gui.after # <<>>
             /\ Head(gui.after).target = gui.client]_vars

\* C20: a ProcessPdf RPC only goes out through a client whose own health
\* check had returned "healthy" by then, and a press of Process PDF while
\* self.client is not such a client starts nothing.
C20_RpcOnlyWhenHealthy ==
    /\ gui.rpc # NoRpc => gui.rpc.healthy
    /\ gui.pressed # "Processing unchecked"
====
